---- MODULE Spec2Model ----
(***************************************************************************)
(* Model of lib/page-object/command-wrapper.js: the selector resolver      *)
(* (getElement, getSection, convertSelector), the ancestor chain builder,  *)
(* the locate strategy switch, the command wrapper closure and the         *)
(* command registrar, together with the driver's FIFO command queue the    *)
(* wrapper talks to.                                                       *)
(*                                                                         *)
(* JavaScript strings that the code parses are sequences of one-character  *)
(* strings, so that substring, indexOf, lastIndexOf, split and the regular *)
(* expression of getElement are computed rather than assumed.              *)
(***************************************************************************)
EXTENDS Integers, Sequences, FiniteSets, TLC

\* ---------------------------------------------------------------- bounds
\* number of wrapped-command invocations in one behaviour
MaxCalls == 2
\* number of addWrappedCommands calls in one behaviour
MaxRegs == 2
\* number of direct resolutions explored
MaxRes == 3

\* ------------------------------------------------------ strategies, names
CSS == "css selector"
XPATH == "xpath"
RECURSION == "recursion"
\* a locateStrategy that is none of the three kinds (an absent field)
ABSENT == "undefined"

\* a locateStrategy that names a property every object inherits from
\* Object.prototype (toString, constructor, hasOwnProperty, ...)
INHERITED == "toString"

\* the keys of methodMap
methodMap == {XPATH, CSS, RECURSION}

\* desiredStrategy in methodMap: true of the object's own keys and of the
\* keys it inherits
InMethodMap(desiredStrategy) == desiredStrategy \in methodMap \cup {INHERITED}

\* element and section names (keys of parent.elements / parent.section)
N_btn == <<"b", "t">>
N_dyn == <<"d">>
N_odd == <<"o">>
N_sec == <<"s">>
N_bare == <<"n">>
N_inh == <<"t">>
N_none == <<"z">>

\* ------------------------------------------------------------- selectors
\* A selector is a string, a function, the result of a function call, or
\* missing. val is a sequence of strings: the text of a string selector,
\* the name of a function, or the function's name followed by the
\* arguments it was applied to.
NoSel == [kind |-> "none", val |-> <<>>]

StrSel(chars) == [kind |-> "str", val |-> <<chars>>]

FnSel(f) == [kind |-> "fn", val |-> <<f>>]

\* fn.apply(null, args): the value an (uninterpreted) selector function
\* returns for the argument list args
ApplySel(sel, args) == [kind |-> "app", val |-> sel.val \o args]

\* JavaScript truthiness of a selector field (e.parent.selector)
Truthy(sel) == sel.kind # "none" /\ ~(sel.kind = "str" /\ sel.val = << <<>> >>)

\* ------------------------------------------------------- the object tree
\* Every page, section and element is an object; a mapping (elements,
\* section, sections) is a set of [name, id] entries.
NoMap == {}

\* a mapping property the object does not have (reads undefined)
Missing == {[name |-> <<>>, id |-> "undefined"]}

Entry(n, i) == [name |-> n, id |-> i]

Keys(m) == {e.name : e \in m}

Lookup(m, n) == (CHOOSE e \in m : e.name = n).id

\* section is the property getSection searches, sections the one whose keys
\* its message lists; a container carries them as two properties
Obj(n, sel, strat, par, els, section, sections) ==
  [name |-> n, selector |-> sel, locateStrategy |-> strat, parent |-> par,
   elements |-> els, section |-> section, sections |-> sections]

\* an element: it holds no mappings
El(n, sel, strat, par) ==
  [name |-> n, selector |-> sel, locateStrategy |-> strat, parent |-> par]

\* page  : b (css, '#p'), d (function selector, xpath), o (no strategy),
\*         t (strategy 'toString')
\*   sections holds the same names as section
\*   s  -> s1 (css)  : b (xpath), d (function selector, css)
\*            section only, no sections property
\*            s -> s2 (xpath) : b (css)
\*   n  -> bare (no selector) : b (xpath)
InitObjs ==
  [i \in {"page", "s1", "s2", "bare", "p.b", "p.d", "p.o", "p.t", "s1.b",
          "s1.d", "s2.b", "bare.b"} |->
     CASE i = "page" ->
            Obj(<<"p","g">>, NoSel, ABSENT, "null",
                {Entry(N_btn, "p.b"), Entry(N_dyn, "p.d"), Entry(N_odd, "p.o"),
                 Entry(N_inh, "p.t")},
                {Entry(N_sec, "s1"), Entry(N_bare, "bare")},
                {Entry(N_sec, "s1"), Entry(N_bare, "bare")})
       [] i = "s1" ->
            Obj(N_sec, StrSel(<<"#","1">>), CSS, "page",
                {Entry(N_btn, "s1.b"), Entry(N_dyn, "s1.d")},
                {Entry(N_sec, "s2")}, Missing)
       [] i = "s2" ->
            Obj(N_sec, StrSel(<<"/","2">>), XPATH, "s1",
                {Entry(N_btn, "s2.b")}, NoMap, NoMap)
       [] i = "bare" ->
            Obj(N_bare, NoSel, CSS, "page", {Entry(N_btn, "bare.b")}, NoMap, NoMap)
       [] i = "p.b" -> El(N_btn, StrSel(<<"#","p">>), CSS, "page")
       [] i = "p.d" -> El(N_dyn, FnSel(<<"f">>), XPATH, "page")
       [] i = "p.o" -> El(N_odd, StrSel(<<"#","o">>), ABSENT, "page")
       [] i = "p.t" -> El(N_inh, StrSel(<<"#","t">>), INHERITED, "page")
       [] i = "s1.b" -> El(N_btn, StrSel(<<"/","b">>), XPATH, "s1")
       [] i = "s1.d" -> El(N_dyn, FnSel(<<"g">>), CSS, "s1")
       [] i = "s2.b" -> El(N_btn, StrSel(<<"#","b">>), CSS, "s2")
       [] OTHER -> El(N_btn, StrSel(<<"/","q">>), XPATH, "bare")]

\* the pages and sections commands are registered on
Containers == {"page", "s1", "s2", "bare"}

\* A descriptor is what a resolution returns: the object itself (clone
\* FALSE) or an object created from it by Object.create (clone TRUE), whose
\* own fields are selector and parent and whose name and locateStrategy are
\* read through the prototype.
Desc(o, i) ==
  [base |-> i, clone |-> FALSE, name |-> o[i].name, selector |-> o[i].selector,
   locateStrategy |-> o[i].locateStrategy, parent |-> o[i].parent]

NoDesc ==
  [base |-> "null", clone |-> FALSE, name |-> <<>>, selector |-> NoSel,
   locateStrategy |-> ABSENT, parent |-> "null"]

\* ------------------------------------------------------ string functions
\* s.indexOf(c), 1-based; 0 when c does not occur
IndexOf(s, c) ==
  IF \E i \in 1..Len(s) : s[i] = c
    THEN CHOOSE i \in 1..Len(s) : s[i] = c /\ \A j \in 1..(i - 1) : s[j] # c
    ELSE 0

\* s.lastIndexOf(c), 1-based; 0 when c does not occur
LastIndexOf(s, c) ==
  IF \E i \in 1..Len(s) : s[i] = c
    THEN CHOOSE i \in 1..Len(s) : s[i] = c /\ \A j \in (i + 1)..Len(s) : s[j] # c
    ELSE 0

\* s.substring(1)
DropFirst(s) == IF Len(s) = 0 THEN <<>> ELSE SubSeq(s, 2, Len(s))

\* s.split(','): the pieces between the commas; one empty piece for ''
RECURSIVE Split(_)
Split(s) ==
  LET i == IndexOf(s, ",")
  IN IF i = 0 THEN <<s>>
     ELSE <<SubSeq(s, 1, i - 1)>> \o Split(SubSeq(s, i + 1, Len(s)))

\* s.match(/[^<]+<.*>$/): some '<' with a character other than '<' right
\* before it, and a '>' after it that ends the string
MatchesDynamic(s) ==
  /\ Len(s) >= 3
  /\ s[Len(s)] = ">"
  /\ \E i \in 2..(Len(s) - 1) : s[i] = "<" /\ s[i - 1] # "<"

\* ------------------------------------------------------------- resolver
\* The outcome of a resolution: threw is "" or the throw statement reached,
\* el the descriptor returned, names the names the message lists, objs the
\* object tree after the call.
Resolved(d, o) == [threw |-> "", el |-> d, names |-> {}, objs |-> o]

Thrown(kind, ns, o) == [threw |-> kind, el |-> NoDesc, names |-> ns, objs |-> o]

\* convertSelector without the typeof check
convertSelector_unchecked(o, id, args) ==
  Resolved([base |-> id, clone |-> TRUE, name |-> o[id].name,
            selector |-> ApplySel(o[id].selector, args),
            locateStrategy |-> o[id].locateStrategy,
            parent |-> o[id].parent], o)

\* convertSelector that assigns the selector on elementObj itself instead
\* of on an object created from it
convertSelector_inPlace(o, id, args) ==
  IF o[id].selector.kind # "fn"
    THEN Thrown("config", {}, o)
    ELSE LET written == [o EXCEPT ![id].selector = ApplySel(o[id].selector, args)]
         IN Resolved(Desc(written, id), written)

convertSelector(o, id, args) ==
  IF o[id].selector.kind # "fn"
    THEN Thrown("config", {}, o)
    ELSE Resolved([base |-> id, clone |-> TRUE, name |-> o[id].name,
                   selector |-> ApplySel(o[id].selector, args),
                   locateStrategy |-> o[id].locateStrategy,
                   parent |-> o[id].parent], o)

\* The names of the tree are plain identifiers: no element is itself named
\* 'x<y>', and only an object's own keys are looked up.
getElement(o, parent, token) ==
  LET elementName == DropFirst(token)
      lt == IndexOf(elementName, "<")
      args == Split(SubSeq(elementName, lt + 1, LastIndexOf(elementName, ">") - 1))
      baseName == SubSeq(elementName, 1, lt - 1)
  IN IF elementName \in Keys(o[parent].elements)
       THEN Resolved(Desc(o, Lookup(o[parent].elements, elementName)), o)
     ELSE IF MatchesDynamic(elementName) /\ baseName \in Keys(o[parent].elements)
       THEN convertSelector(o, Lookup(o[parent].elements, baseName), args)
     ELSE Thrown("notfound", Keys(o[parent].elements), o)

\* Object.keys(parent.sections) raises TypeError when parent.sections is
\* undefined
getSection(o, parent, token) ==
  LET sectionName == DropFirst(token)
  IN IF sectionName \notin Keys(o[parent].section)
       THEN IF o[parent].sections = Missing
              THEN Thrown("type", {}, o)
              ELSE Thrown("notfound", Keys(o[parent].sections), o)
       ELSE Resolved(Desc(o, Lookup(o[parent].section, sectionName)), o)

\* ------------------------------------------------------- ancestor chain
\* a walk that follows every parent, with or without a selector
RECURSIVE addElement_toRoot(_, _, _)
addElement_toRoot(o, e, elements) ==
  LET unshifted == <<e>> \o elements
  IN IF e.parent # "null"
       THEN addElement_toRoot(o, Desc(o, e.parent), unshifted)
       ELSE unshifted

RECURSIVE addElement(_, _, _)
addElement(o, e, elements) ==
  LET unshifted == <<e>> \o elements
  IN IF e.parent # "null" /\ Truthy(o[e.parent].selector)
       THEN addElement(o, Desc(o, e.parent), unshifted)
       ELSE unshifted

\* a chain builder that looks one parent up and no further
getAncestorsWithElement_oneUp(o, element) ==
  IF element.parent # "null" /\ Truthy(o[element.parent].selector)
    THEN <<Desc(o, element.parent), element>>
    ELSE <<element>>

getAncestorsWithElement(o, element) == addElement(o, element, <<>>)

\* ------------------------------------------------------ argument values
\* A JavaScript value passed to, or by, a wrapped command. t is its kind:
\*   "str"     a string (str its characters)       "num"  a number
\*   "null"    null or undefined                   "cb"   a caller's function
\*   "sel"     a selector field's value (sel)      "chain" an ancestor array
\*   "wrapper" a callbackWrapper closure: prev is the strategy it captured,
\*             ot, cb and sel describe the function it wraps
Val(t, str, sel, chain, cb, prev, ot) ==
  [t |-> t, str |-> str, sel |-> sel, chain |-> chain, cb |-> cb,
   prev |-> prev, ot |-> ot]

StrVal(chars) == Val("str", chars, NoSel, <<>>, "", "", "")

NumVal(digits) == Val("num", digits, NoSel, <<>>, "", "", "")

NullVal == Val("null", <<>>, NoSel, <<>>, "", "", "")

CbVal(id) == Val("cb", <<>>, NoSel, <<>>, id, "", "")

SelVal(sel) == Val("sel", <<>>, sel, <<>>, "", "", "")

ChainVal(ancestors) == Val("chain", <<>>, NoSel, ancestors, "", "", "")

\* typeof v === 'function'
IsFunction(v) ==
  v.t = "cb" \/ v.t = "wrapper" \/ (v.t = "sel" /\ v.sel.kind = "fn")

\* v.toString(), for the values that have one; a function's text starts
\* with the word function
toString(v) ==
  CASE v.t = "str" -> v.str
    [] v.t = "num" -> v.str
    [] OTHER -> <<"f", "u", "n", "c", "t", "i", "o", "n">>

\* s.indexOf('@') === 0
StartsWithSigil(s) == IndexOf(s, "@") = 1

\* args[0].toString() raises TypeError for null and undefined
ToStringThrows(args) == Len(args) > 0 /\ args[1].t = "null"

isElementCommand(args) == Len(args) > 0 /\ StartsWithSigil(toString(args[1]))

\* typeof args[index] === 'function', index counted from 0 as in the code;
\* an index outside the array reads undefined
IsFunctionAt(args, index) ==
  index >= 0 /\ index < Len(args) /\ IsFunction(args[index + 1])

\* a scan that takes the last function found at any position
findCallbackIndex_scanAll(args) ==
  IF \E i \in 0..(Len(args) - 1) : IsFunctionAt(args, i)
    THEN CHOOSE i \in 0..(Len(args) - 1) :
           /\ IsFunctionAt(args, i)
           /\ \A j \in (i + 1)..(Len(args) - 1) : ~IsFunctionAt(args, j)
    ELSE -1

findCallbackIndex(args) ==
  IF Len(args) = 0 THEN -1
  ELSE IF IsFunctionAt(args, Len(args) - 1) THEN Len(args) - 1
  ELSE IF IsFunctionAt(args, Len(args) - 2) THEN Len(args) - 2
  ELSE -1

\* --------------------------------------------------- the driver's queue
\* A queue entry is a strategy switch (the primitive invoked) or an
\* underlying command with the arguments it was called with.
UseEntry(method) == [t |-> "use", method |-> method, fn |-> "", args |-> <<>>]

CmdEntry(fn, args) == [t |-> "cmd", method |-> "", fn |-> fn, args |-> args]

\* client.api.useXpath / useCss / useRecursion: queued by the driver
apiUse(q, method) == Append(q, UseEntry(method))

\* what the queued primitive sets client.locateStrategy to when it runs
StrategyOf(method) ==
  CASE method = "useXpath" -> XPATH
    [] method = "useCss" -> CSS
    [] OTHER -> RECURSION

\* the underlying command function: queues the command
applyCommandFn(q, fn, args) == Append(q, CmdEntry(fn, args))

\* what the underlying command function returns
ResultOf(fn) == [t |-> "result", of |-> fn]

ContainerRet(c) == [t |-> "container", of |-> c]

NoRet == [t |-> "none", of |-> ""]

methodNameOf(desiredStrategy) ==
  CASE desiredStrategy = XPATH -> "useXpath"
    [] desiredStrategy = CSS -> "useCss"
    [] OTHER -> "useRecursion"

\* For an inherited key methodMap[desiredStrategy] is not a primitive's
\* name, client.api has no such property and calling it raises TypeError.
setLocateStrategyThrows(desiredStrategy) ==
  InMethodMap(desiredStrategy) /\ desiredStrategy \notin methodMap

\* the queue setLocateStrategy leaves when it returns
setLocateStrategy(q, desiredStrategy) ==
  IF desiredStrategy \in methodMap
    THEN apiUse(q, methodNameOf(desiredStrategy))
    ELSE q

\* ---------------------------------------------------- the command wrapper
\* The closure makeWrappedCommand returns, as the values it closes over.
makeWrappedCommand(parent, commandFn, commandName, isChaiAssertion) ==
  [parent |-> parent, fn |-> commandFn, name |-> commandName,
   chai |-> isChaiAssertion]

NoWrapped == makeWrappedCommand("null", "", "", FALSE)

\* args[callbackIndex] = function callbackWrapper() {...}: the closure, as
\* the strategy and the function it closes over
WrapCallback(prevLocateStrategy, originalCallback) ==
  Val("wrapper", <<>>, originalCallback.sel, <<>>, originalCallback.cb,
      prevLocateStrategy, originalCallback.t)

\* one call of an original callback: the strategy it finds in
\* client.locateStrategy and the arguments it receives
Observed(cb, seen, args, via) == [cb |-> cb, seen |-> seen, args |-> args, via |-> via]

\* callbackWrapper without the direct write of client.locateStrategy
callbackWrapper_noWrite(w, ls, dargs) ==
  [locateStrategy |-> ls, calls |-> <<Observed(w.cb, ls, dargs, "wrapper")>>]

\* The body of callbackWrapper, run when the driver calls the wrapper w with
\* the arguments dargs while client.locateStrategy is ls: the strategy it
\* leaves and the calls of the original callback it makes.
callbackWrapper(w, ls, dargs) ==
  LET written == w.prev
  IN [locateStrategy |-> written,
      calls |-> <<Observed(w.cb, written, dargs, "wrapper")>>]

\* What one call of a wrapped command did. threw is "" or the error raised
\* ("type", "notfound", "config"); the other fields are the locals of the
\* closure, the queue and object tree it leaves and the value it returns;
\* names is what the message of a not-found error lists.
Outcome(threw, q, o, ret, elementCommand, prev, el, ancestors, desired, callbackIndex, passed) ==
  [threw |-> threw, queue |-> q, objs |-> o, ret |-> ret,
   elementCommand |-> elementCommand, prevLocateStrategy |-> prev, el |-> el,
   ancestors |-> ancestors, desiredStrategy |-> desired,
   callbackIndex |-> callbackIndex, passed |-> passed, names |-> {}]

\* a return that ignores isChaiAssertion
returnValue_parent(w, c) == ContainerRet(w.parent)

\* return (isChaiAssertion ? c : parent)
returnValue(w, c) == IF w.chai THEN c ELSE ContainerRet(w.parent)

\* the restore queued ahead of the underlying command instead of after it
restoreAfterCall_early(q, elementCommand, prevLocateStrategy) ==
  IF elementCommand /\ prevLocateStrategy \in methodMap
    THEN SubSeq(q, 1, Len(q) - 1)
           \o <<UseEntry(methodNameOf(prevLocateStrategy)), q[Len(q)]>>
    ELSE q

\* the closure with the restore after the call left out
restoreAfterCall_none(q, elementCommand, prevLocateStrategy) == q

\* if (elementCommand) setLocateStrategy(parent.client, prevLocateStrategy)
restoreAfterCall(q, elementCommand, prevLocateStrategy) ==
  IF elementCommand THEN setLocateStrategy(q, prevLocateStrategy) ELSE q

\* the end of the closure: call the underlying command with the final
\* arguments, restore, return
invoke(w, args, elementCommand, prevLocateStrategy, q) ==
  LET c == ResultOf(w.fn)
      q2 == applyCommandFn(q, w.fn, args)
  IN [queue |-> restoreAfterCall(q2, elementCommand, prevLocateStrategy),
      ret |-> returnValue(w, c)]

\* the part of the closure after a successful resolution r
targetedCommand(w, rest, prevLocateStrategy, q, r) ==
  LET elementOrSection == r.el
      ancestors == getAncestorsWithElement(r.objs, elementOrSection)
      firstArg == IF Len(ancestors) = 1
                    THEN SelVal(elementOrSection.selector)
                    ELSE ChainVal(ancestors)
      desiredStrategy == IF Len(ancestors) = 1
                           THEN elementOrSection.locateStrategy
                           ELSE RECURSION
      q1 == setLocateStrategy(q, desiredStrategy)
      unshifted == <<firstArg>> \o rest
      callbackIndex == findCallbackIndex(unshifted)
      args == IF callbackIndex # -1
                THEN [unshifted EXCEPT ![callbackIndex + 1] =
                        WrapCallback(prevLocateStrategy, unshifted[callbackIndex + 1])]
                ELSE unshifted
      done == invoke(w, args, TRUE, prevLocateStrategy, q1)
  IN IF setLocateStrategyThrows(desiredStrategy)
       THEN Outcome("type", q, r.objs, NoRet, TRUE, prevLocateStrategy,
                    elementOrSection, ancestors, desiredStrategy, -1, <<>>)
       ELSE Outcome("", done.queue, r.objs, done.ret, TRUE, prevLocateStrategy,
                    elementOrSection, ancestors, desiredStrategy, callbackIndex,
                    args)

\* a closure that calls the underlying command with the caller's arguments
\* when the resolution fails, and raises the error after that
wrappedCommand_callOnFailure(w, arguments, ls, q, o) ==
  LET prevLocateStrategy == ls
  IN IF ToStringThrows(arguments)
       THEN Outcome("type", q, o, NoRet, FALSE, prevLocateStrategy, NoDesc,
                    <<>>, ABSENT, -1, <<>>)
     ELSE IF ~isElementCommand(arguments)
       THEN LET done == invoke(w, arguments, FALSE, prevLocateStrategy, q)
            IN Outcome("", done.queue, o, done.ret, FALSE, prevLocateStrategy,
                       NoDesc, <<>>, ABSENT, -1, arguments)
     ELSE LET elementOrSectionName == Head(arguments).str
              r == IF w.chai /\ w.name = "section"
                     THEN getSection(o, w.parent, elementOrSectionName)
                     ELSE getElement(o, w.parent, elementOrSectionName)
              done == invoke(w, arguments, TRUE, prevLocateStrategy, q)
          IN IF r.threw # ""
               THEN [Outcome(r.threw, done.queue, r.objs, NoRet, TRUE,
                             prevLocateStrategy, NoDesc, <<>>, ABSENT, -1, <<>>)
                       EXCEPT !.names = r.names]
               ELSE targetedCommand(w, Tail(arguments), prevLocateStrategy, q, r)

\* The closure's body: arguments, the driver's strategy field ls, the
\* driver's queue q and the object tree o at the time of the call.
wrappedCommand(w, arguments, ls, q, o) ==
  LET prevLocateStrategy == ls
  IN IF ToStringThrows(arguments)
       THEN Outcome("type", q, o, NoRet, FALSE, prevLocateStrategy, NoDesc,
                    <<>>, ABSENT, -1, <<>>)
     ELSE IF ~isElementCommand(arguments)
       THEN LET done == invoke(w, arguments, FALSE, prevLocateStrategy, q)
            IN Outcome("", done.queue, o, done.ret, FALSE, prevLocateStrategy,
                       NoDesc, <<>>, ABSENT, -1, arguments)
     ELSE LET elementOrSectionName == Head(arguments).str
              r == IF w.chai /\ w.name = "section"
                     THEN getSection(o, w.parent, elementOrSectionName)
                     ELSE getElement(o, w.parent, elementOrSectionName)
          IN IF r.threw # ""
               THEN [Outcome(r.threw, q, r.objs, NoRet, TRUE, prevLocateStrategy,
                             NoDesc, <<>>, ABSENT, -1, <<>>)
                       EXCEPT !.names = r.names]
               ELSE targetedCommand(w, Tail(arguments), prevLocateStrategy, q, r)

\* --------------------------------------------------------- the registrar
isValidAssertion(commandName) == commandName \in {"assert", "verify", "expect"}

\* An attached command: the slot target[ns][name] (ns "" for target[name]),
\* the closure in it and the registration call that put it there.
Slot(target, ns, name, w, reg) ==
  [target |-> target, ns |-> ns, name |-> name, w |-> w, reg |-> reg]

\* target[commandName] is truthy
Occupied(slots, target, ns, name) ==
  \E s \in slots : s.target = target /\ s.ns = ns /\ s.name = name

\* addCommand without the check of the slot: the new closure replaces the old
addCommand_overwrite(st, target, ns, commandFn, commandName, parent, isChaiAssertion, reg) ==
  [st EXCEPT !.slots =
     {s \in @ : ~(s.target = target /\ s.ns = ns /\ s.name = commandName)} \cup
     {Slot(target, ns, commandName,
           makeWrappedCommand(parent, commandFn, commandName, isChaiAssertion),
           reg)}]

\* addCommand that throws without recording the failure on the client
addCommand_silent(st, target, ns, commandFn, commandName, parent, isChaiAssertion, reg) ==
  IF Occupied(st.slots, target, ns, commandName)
    THEN [st EXCEPT !.threw = TRUE]
    ELSE [st EXCEPT !.slots = @ \cup
            {Slot(target, ns, commandName,
                  makeWrappedCommand(parent, commandFn, commandName,
                                     isChaiAssertion), reg)}]

\* The registrar's state: the attached commands, the assertion namespaces
\* created, the client's error counter and error log, and whether the
\* registration has thrown.
addCommand(st, target, ns, commandFn, commandName, parent, isChaiAssertion, reg) ==
  IF Occupied(st.slots, target, ns, commandName)
    THEN [st EXCEPT !.errors = @ + 1, !.log = Append(@, commandName),
                    !.threw = TRUE]
    ELSE [st EXCEPT !.slots = @ \cup
            {Slot(target, ns, commandName,
                  makeWrappedCommand(parent, commandFn, commandName,
                                     isChaiAssertion), reg)}]

RECURSIVE applyAssertions(_, _, _, _, _, _)
applyAssertions(st, parent, target, commandName, assertions, reg) ==
  IF assertions = <<>> \/ st.threw THEN st
  ELSE applyAssertions(
         addCommand(st, target, commandName, Head(assertions).fn,
                    Head(assertions).key, parent, commandName = "expect", reg),
         parent, target, commandName, Tail(assertions), reg)

RECURSIVE applyCommandsToTarget(_, _, _, _, _)
applyCommandsToTarget(st, parent, target, commands, reg) ==
  IF commands = <<>> \/ st.threw THEN st
  ELSE LET c == Head(commands)
           st1 == IF isValidAssertion(c.key)
                    THEN applyAssertions(
                           [st EXCEPT !.spaces = @ \cup {<<target, c.key>>}],
                           parent, target, c.key, c.assertions, reg)
                    ELSE addCommand(st, target, "", c.fn, c.key, parent, FALSE, reg)
       IN applyCommandsToTarget(st1, parent, target, Tail(commands), reg)

addWrappedCommands(st, parent, commands, reg) ==
  applyCommandsToTarget(st, parent, parent, commands, reg)

\* ----------------------------------------------------------------- inputs
\* command catalogs a commandLoader returns: a key is a command (fn) or one
\* of the assertion keywords with its assertions
Command(key, fn) == [key |-> key, fn |-> fn, assertions |-> <<>>]

Assertions(key, items) == [key |-> key, fn |-> "", assertions |-> items]

\* the catalog loaded onto every page and section
CatalogA ==
  <<Command("click", "clickA"),
    Command("waitFor", "waitForA"),
    Assertions("assert", <<Command("ok", "assertOkA")>>),
    Assertions("verify", <<Command("ok", "verifyOkA")>>),
    Assertions("expect", <<Command("visible", "visibleA"),
                           Command("section", "sectionA")>>)>>

\* a second catalog: new names before and after names CatalogA also has
CatalogB ==
  <<Command("pause", "pauseB"),
    Assertions("verify", <<Command("title", "titleB"), Command("ok", "verifyOkB")>>),
    Command("click", "clickB")>>

Catalogs == {CatalogA, CatalogB}

\* A reference as the caller means it: the element or section name and,
\* for a parameterized reference, the arguments between '<' and '>'.
Ref(name) == [targeted |-> TRUE, name |-> name, dynamic |-> FALSE, params |-> <<>>]

DynRef(name, params) ==
  [targeted |-> TRUE, name |-> name, dynamic |-> TRUE, params |-> params]

NoRef == [targeted |-> FALSE, name |-> <<>>, dynamic |-> FALSE, params |-> <<>>]

\* params.join(',')
RECURSIVE JoinComma(_)
JoinComma(params) ==
  IF Len(params) = 0 THEN <<>>
  ELSE IF Len(params) = 1 THEN params[1]
  ELSE params[1] \o <<",">> \o JoinComma(Tail(params))

\* the text of the reference: '@name' or '@name<a,b>'
RefText(ref) ==
  <<"@">> \o ref.name \o
    (IF ref.dynamic THEN <<"<">> \o JoinComma(ref.params) \o <<">">> ELSE <<>>)

P_a == <<"a">>
P_bc == <<"b", "c">>

CB1 == CbVal("cb1")
NUM == NumVal(<<"5">>)
MSG == StrVal(<<"m">>)
RAW == StrVal(<<"#", "r">>)

\* one call: the slot called (ns "" for a plain command), the reference
\* given first (if any) and the arguments after it
Invocation(ns, name, ref, trail) ==
  [ns |-> ns, name |-> name, ref |-> ref, trail |-> trail]

ArgumentsOf(inv) ==
  IF inv.ref.targeted THEN <<StrVal(RefText(inv.ref))>> \o inv.trail ELSE inv.trail

Invocations ==
  {Invocation("", "click", Ref(N_btn), t) : t \in {<<>>, <<NUM, CB1>>, <<CB1, MSG>>}}
    \cup
  {Invocation("", "click", DynRef(N_dyn, <<P_a, P_bc>>), t) : t \in {<<>>, <<CB1>>}}
    \cup
  {Invocation("", "click", r, <<>>) :
     r \in {Ref(N_dyn), DynRef(N_btn, <<P_a>>), Ref(N_none), Ref(N_odd),
            Ref(N_inh)}}
    \cup
  {Invocation("", "click", NoRef, t) : t \in {<<>>, <<NullVal>>, <<RAW, CB1>>}}
    \cup
  {Invocation("", "waitFor", Ref(N_btn), <<CB1, MSG, NUM>>),
   Invocation("", "waitFor", Ref(N_dyn), <<NUM>>),
   Invocation("assert", "ok", Ref(N_btn), <<>>),
   Invocation("verify", "ok", Ref(N_btn), <<MSG>>),
   Invocation("expect", "visible", DynRef(N_dyn, <<P_a>>), <<>>),
   Invocation("expect", "visible", NoRef, <<RAW>>),
   Invocation("expect", "section", Ref(N_sec), <<>>),
   Invocation("expect", "section", Ref(N_bare), <<CB1>>),
   Invocation("expect", "section", Ref(N_none), <<>>)}

\* the arguments the driver calls a command's callback with
DriverArgs == {<<>>, <<"result">>}

\* ------------------------------------------------------------------ state
VARIABLES
  objs,            \* the pages, sections and elements
  slots,           \* the wrapped commands attached to pages and sections
  spaces,          \* the assertion namespaces created on them
  errors,          \* client.results.errors
  log,             \* client.errors
  locateStrategy,  \* client.locateStrategy
  queue,           \* the driver's command queue
  tags,            \* for each queue entry: the invocation that queued it
  nextInv,         \* number of wrapped-command calls made
  regs,            \* number of addWrappedCommands calls made
  resolved,        \* the resolutions made so far, in order, each with the
                   \* container, the lookup, the token and what it gave
  last             \* the operation just performed and what it did; mutated
                   \* tells whether it changed any page, section or element

vars == <<objs, slots, spaces, errors, log, locateStrategy, queue, tags,
          nextInv, regs, resolved, last>>

\* what is kept of a call's outcome: its locals, without the queue and the
\* object tree, which are the state itself
Report(out) ==
  [threw |-> out.threw, ret |-> out.ret, elementCommand |-> out.elementCommand,
   prevLocateStrategy |-> out.prevLocateStrategy, el |-> out.el,
   ancestors |-> out.ancestors, desiredStrategy |-> out.desiredStrategy,
   callbackIndex |-> out.callbackIndex, passed |-> out.passed,
   names |-> out.names]

NoOutcome == Report(Outcome("", <<>>, InitObjs, NoRet, FALSE, ABSENT, NoDesc, <<>>,
                            ABSENT, -1, <<>>))

NoTag ==
  [inv |-> 0, role |-> "", before |-> ABSENT, targeted |-> FALSE,
   desired |-> ABSENT]

NoLast ==
  [op |-> "none", target |-> "null", slot |-> Slot("null", "", "", NoWrapped, 0),
   ref |-> NoRef, arguments |-> <<>>, before |-> ABSENT, out |-> NoOutcome,
   appended |-> <<>>, inv |-> 0, catalog |-> <<>>, slotsBefore |-> {},
   errorsBefore |-> 0, logBefore |-> <<>>, threw |-> FALSE,
   entry |-> UseEntry(""), tag |-> NoTag, fired |-> <<>>, dargs |-> <<>>,
   mutated |-> FALSE]

Init ==
  /\ objs = InitObjs
  /\ slots = {}
  /\ spaces = {}
  /\ errors = 0
  /\ log = <<>>
  /\ locateStrategy \in {CSS, XPATH}
  /\ queue = <<>>
  /\ tags = <<>>
  /\ nextInv = 0
  /\ regs = 0
  /\ resolved = <<>>
  /\ last = NoLast

\* ---------------------------------------------------------------- actions
\* addWrappedCommands(parent, commandLoader), commandLoader returning catalog
Register(parent, catalog) ==
  /\ regs < MaxRegs
  /\ LET st == addWrappedCommands(
                 [slots |-> slots, spaces |-> spaces, errors |-> errors,
                  log |-> log, threw |-> FALSE], parent, catalog, regs + 1)
     IN /\ slots' = st.slots
        /\ spaces' = st.spaces
        /\ errors' = st.errors
        /\ log' = st.log
        /\ last' = [NoLast EXCEPT !.op = "register", !.target = parent,
                      !.catalog = catalog, !.slotsBefore = slots,
                      !.errorsBefore = errors, !.logBefore = log,
                      !.threw = st.threw]
  /\ regs' = regs + 1
  /\ UNCHANGED <<objs, locateStrategy, queue, tags, nextInv, resolved>>

\* the invocation and role of each entry a call appended to the queue, with
\* the strategy the invocation found and the one it selected
TagsFor(appended, id, before, targeted, desired) ==
  [i \in 1..Len(appended) |->
     [inv |-> id,
      role |-> IF appended[i].t = "cmd" THEN "cmd"
               ELSE IF \E j \in 1..(i - 1) : appended[j].t = "cmd" THEN "restore"
               ELSE "switch",
      before |-> before, targeted |-> targeted, desired |-> desired]]

\* target.name(...) or target.ns.name(...): one call of a wrapped command
Call(target, inv) ==
  /\ nextInv < MaxCalls
  /\ \E s \in slots :
       /\ s.target = target /\ s.ns = inv.ns /\ s.name = inv.name
       /\ LET out == wrappedCommand(s.w, ArgumentsOf(inv), locateStrategy,
                                    queue, objs)
              appended == SubSeq(out.queue, Len(queue) + 1, Len(out.queue))
          IN /\ queue' = out.queue
             /\ objs' = out.objs
             /\ tags' = tags \o TagsFor(appended, nextInv + 1, locateStrategy,
                                        out.elementCommand, out.desiredStrategy)
             /\ last' = [NoLast EXCEPT !.op = "call", !.target = target,
                           !.slot = s, !.ref = inv.ref,
                           !.arguments = ArgumentsOf(inv),
                           !.before = locateStrategy, !.out = Report(out),
                           !.appended = appended, !.inv = nextInv + 1,
                           !.mutated = (out.objs # objs)]
  /\ nextInv' = nextInv + 1
  /\ UNCHANGED <<slots, spaces, errors, log, locateStrategy, regs, resolved>>

\* the driver runs the strategy switch at the head of its queue
ExecUse ==
  /\ queue # <<>>
  /\ Head(queue).t = "use"
  /\ locateStrategy' = StrategyOf(Head(queue).method)
  /\ queue' = Tail(queue)
  /\ tags' = Tail(tags)
  /\ last' = [NoLast EXCEPT !.op = "use", !.entry = Head(queue),
                !.tag = Head(tags), !.before = locateStrategy]
  /\ UNCHANGED <<objs, slots, spaces, errors, log, nextInv, regs, resolved>>

\* The driver calls the callbacks among args, in order, with dargs: a
\* wrapper runs callbackWrapper, a caller's function is called as it is.
RECURSIVE runCallbacks(_, _, _)
runCallbacks(args, ls, dargs) ==
  IF args = <<>> THEN [locateStrategy |-> ls, fired |-> <<>>]
  ELSE LET a == Head(args)
           one == IF a.t = "wrapper" /\ a.ot = "cb"
                    THEN callbackWrapper(a, ls, dargs)
                  ELSE IF a.t = "cb"
                    THEN [locateStrategy |-> ls,
                          calls |-> <<Observed(a.cb, ls, dargs, "direct")>>]
                  ELSE [locateStrategy |-> ls, calls |-> <<>>]
           rest == runCallbacks(Tail(args), one.locateStrategy, dargs)
       IN [locateStrategy |-> rest.locateStrategy,
           fired |-> one.calls \o rest.fired]

\* the driver runs the command at the head of its queue and calls back
ExecCmd(dargs) ==
  /\ queue # <<>>
  /\ Head(queue).t = "cmd"
  /\ LET run == runCallbacks(Head(queue).args, locateStrategy, dargs)
     IN /\ locateStrategy' = run.locateStrategy
        /\ last' = [NoLast EXCEPT !.op = "cmd", !.entry = Head(queue),
                      !.tag = Head(tags), !.before = locateStrategy,
                      !.fired = run.fired, !.dargs = dargs]
  /\ queue' = Tail(queue)
  /\ tags' = Tail(tags)
  /\ UNCHANGED <<objs, slots, spaces, errors, log, nextInv, regs, resolved>>

Next ==
  \/ \E parent \in Containers : Register(parent, CatalogA)
  \/ \E target \in Containers, inv \in Invocations : Call(target, inv)
  \/ ExecUse
  \/ \E dargs \in DriverArgs : ExecCmd(dargs)

Spec == Init /\ [][Next]_vars

\* registration alone, with every catalog
NextReg == \E parent \in Containers, catalog \in Catalogs : Register(parent, catalog)

SpecReg == Init /\ [][NextReg]_vars

\* the references resolved directly: as element names and as section names
ElementRefs ==
  {Ref(N_btn), Ref(N_dyn), DynRef(N_dyn, <<P_a>>), DynRef(N_dyn, <<P_a, P_bc>>),
   DynRef(N_btn, <<P_a>>), Ref(N_none)}

SectionRefs == {Ref(N_sec), Ref(N_none)}

\* one resolution as the closure makes it: getSection(parent, token) when
\* asSection, getElement(parent, token) otherwise
Resolve(parent, asSection, ref) ==
  /\ Len(resolved) < MaxRes
  /\ LET token == RefText(ref)
         r == IF asSection THEN getSection(objs, parent, token)
                           ELSE getElement(objs, parent, token)
     IN /\ objs' = r.objs
        /\ resolved' = Append(resolved,
                          [parent |-> parent, asSection |-> asSection,
                           token |-> token, threw |-> r.threw, el |-> r.el])
        /\ last' = [NoLast EXCEPT !.op = "resolve", !.target = parent,
                      !.ref = ref, !.mutated = (r.objs # objs)]
  /\ UNCHANGED <<slots, spaces, errors, log, locateStrategy, queue, tags,
                 nextInv, regs>>

\* resolutions alone, in any order
NextRes ==
  \/ \E parent \in Containers, ref \in ElementRefs : Resolve(parent, FALSE, ref)
  \/ \E parent \in Containers, ref \in SectionRefs : Resolve(parent, TRUE, ref)

SpecRes == Init /\ [][NextRes]_vars

\* ================================================================ claims
\* the operation just performed is a call of a wrapped command that returned
Returned == last.op = "call" /\ last.out.threw = ""

\* the operation just performed ran the last queue entry of an invocation
Completed ==
  /\ last.op \in {"use", "cmd"}
  /\ \A i \in 1..Len(tags) : tags[i].inv # last.tag.inv

\* C1: once a targeted invocation has completed (every entry it queued has
\* been run by the driver, its callback included), the driver's locate
\* strategy is the value it had when the invocation was called. The
\* invocation starts when the wrapper is called: that is where the closure
\* reads client.locateStrategy.
C1_StrategyRestored ==
  (Completed /\ last.tag.targeted) => locateStrategy = last.tag.before

\* a targeted invocation has completed with a restore that changed the
\* strategy back from another value
C1_Witness ==
  /\ Completed /\ last.tag.targeted
  /\ last.tag.role = "restore"
  /\ last.before # locateStrategy

\* the positions of entry.args holding a wrapper around a caller's callback
WrappedCallbacks(args) ==
  {i \in 1..Len(args) : args[i].t = "wrapper" /\ args[i].ot = "cb"}

\* the calls of original callbacks made through a wrapper
ThroughWrapper(fired) == {j \in 1..Len(fired) : fired[j].via = "wrapper"}

\* C2: when the driver calls the wrapped callback of a targeted invocation,
\* the original callback is called exactly once, with the driver's
\* arguments, and finds in client.locateStrategy the value the strategy had
\* before the wrapped command was called.
C2_CallbackSeesPrior ==
  last.op = "cmd" =>
    /\ Cardinality(ThroughWrapper(last.fired)) =
         Cardinality(WrappedCallbacks(last.entry.args))
    /\ \A j \in ThroughWrapper(last.fired) :
         /\ last.fired[j].seen = last.tag.before
         /\ last.fired[j].args = last.dargs
         /\ \E i \in WrappedCallbacks(last.entry.args) :
              last.entry.args[i].cb = last.fired[j].cb
    /\ (ThroughWrapper(last.fired) # {} => locateStrategy = last.tag.before)

\* a wrapped callback was called while the strategy was the one switched to
\* for its command, and was given an argument
C2_Witness ==
  /\ last.op = "cmd"
  /\ ThroughWrapper(last.fired) # {}
  /\ last.before # last.tag.before
  /\ last.dargs # <<>>

\* the operation just performed is a targeted call that resolved its target
Targeted == Returned /\ last.out.elementCommand

\* p is the caller's argument a, or the callbackWrapper put in its place
SameOrWrapped(p, a) ==
  \/ p = a
  \/ p.t = "wrapper" /\ p.ot = a.t /\ p.cb = a.cb /\ p.sel = a.sel

\* the caller's arguments after the reference follow the first argument in
\* their order
RestInOrder ==
  /\ Len(last.out.passed) = Len(last.arguments)
  /\ \A i \in 2..Len(last.arguments) :
       SameOrWrapped(last.out.passed[i], last.arguments[i])

\* the strategy switch queued right before the underlying command, if any
SwitchedTo ==
  IF last.appended # <<>> /\ last.appended[1].t = "use"
    THEN StrategyOf(last.appended[1].method)
    ELSE ABSENT

\* C3: for every targeted invocation whose target has an ancestor chain of
\* length 1, the first argument of the underlying command is the target's
\* own selector, the caller's other arguments follow in order, and the
\* strategy switched to is the target's own locateStrategy.
C3_OwnSelectorPassed ==
  (Targeted /\ Len(last.out.ancestors) = 1) =>
    /\ last.out.passed[1] = SelVal(last.out.el.selector)
    /\ RestInOrder
    /\ last.out.desiredStrategy = last.out.el.locateStrategy
    /\ (last.out.el.locateStrategy \in methodMap =>
          SwitchedTo = last.out.el.locateStrategy)

\* the sections around the object id, the root page left out
RECURSIVE Enclosing(_, _)
Enclosing(o, id) ==
  LET p == o[id].parent
  IN IF p = "null" \/ o[p].parent = "null" THEN {} ELSE {p} \cup Enclosing(o, p)

\* C4: for every targeted invocation whose target is nested n >= 1 sections
\* deep, every enclosing section having a selector, the first argument of
\* the underlying command is the ancestor chain of length n + 1 ending in
\* the target, and the strategy switched to before the underlying call is
\* recursion.
C4_NestedChainPassed ==
  Targeted =>
    LET secs == Enclosing(InitObjs, last.out.el.base)
        n == Cardinality(secs)
        chain == last.out.passed[1].chain
    IN (n >= 1 /\ \A p \in secs : Truthy(InitObjs[p].selector)) =>
         /\ last.out.passed[1].t = "chain"
         /\ Len(chain) = n + 1
         /\ chain[n + 1] = last.out.el
         /\ \A i \in 1..n : chain[i] = Desc(InitObjs, chain[i + 1].parent)
         /\ {chain[i].base : i \in 1..n} = secs
         /\ last.out.desiredStrategy = RECURSION
         /\ Len(last.appended) >= 2
         /\ last.appended[1] = UseEntry("useRecursion")
         /\ last.appended[2].t = "cmd"
         /\ last.appended[2].args = last.out.passed

\* a target two sections deep, whose own strategy is not recursion, was
\* passed as a chain of three
C4_Witness ==
  /\ Targeted
  /\ Cardinality(Enclosing(InitObjs, last.out.el.base)) = 2
  /\ Len(last.out.passed[1].chain) = 3
  /\ last.out.el.locateStrategy # RECURSION

\* C5: a call of an entry registered under expect returns the underlying
\* function's result; a call of any other entry returns the page or section
\* it was registered on.
C5_ReturnValue ==
  Returned =>
    last.out.ret = IF last.slot.ns = "expect"
                     THEN ResultOf(last.slot.w.fn)
                     ELSE ContainerRet(last.target)

\* a targeted call under expect returned the underlying result
C5_Witness ==
  /\ Targeted
  /\ last.slot.ns = "expect"
  /\ last.out.ret.t = "result"

\* C6: an invocation whose first argument is not an '@' reference invokes no
\* strategy switch, leaves client.locateStrategy alone, wraps no callback
\* and calls the underlying command exactly once with the caller's
\* arguments.
C6_PassthroughUntouched ==
  (last.op = "call" /\ ~last.ref.targeted) =>
    /\ last.appended = <<CmdEntry(last.slot.w.fn, last.arguments)>>
    /\ locateStrategy = last.before

\* the names a catalog attaches: <<ns, name>>, ns "" for a plain command
RECURSIVE CatalogKeys(_)
CatalogKeys(catalog) ==
  IF catalog = <<>> THEN {}
  ELSE LET c == Head(catalog)
       IN (IF c.key \in {"assert", "verify", "expect"}
             THEN {<<c.key, c.assertions[i].key>> : i \in 1..Len(c.assertions)}
             ELSE {<<"", c.key>>})
          \cup CatalogKeys(Tail(catalog))

\* the registration just performed named a slot that was already attached
Duplicate ==
  /\ last.op = "register"
  /\ \E s \in last.slotsBefore :
       s.target = last.target /\ <<s.ns, s.name>> \in CatalogKeys(last.catalog)

\* C7: registering a name that is already attached on the target raises
\* DuplicateCommandError, and every slot attached before still holds the
\* wrapped command of the registration that attached it.
C7_DuplicateRejected ==
  Duplicate =>
    /\ last.threw
    /\ \A s \in last.slotsBefore :
         /\ s \in slots
         /\ \A t \in slots :
              (t.target = s.target /\ t.ns = s.ns /\ t.name = s.name) => t = s

\* a registration failed on a duplicate after attaching new names
C7_Witness ==
  /\ Duplicate
  /\ last.threw
  /\ slots # last.slotsBefore

\* C8: a registration that raises DuplicateCommandError has incremented the
\* error counter by one and appended one diagnostic to the error log; a
\* registration that attaches everything changes neither.
C8_FailureRecorded ==
  last.op = "register" =>
    IF last.threw
      THEN /\ errors = last.errorsBefore + 1
           /\ Len(log) = Len(last.logBefore) + 1
           /\ SubSeq(log, 1, Len(last.logBefore)) = last.logBefore
      ELSE /\ errors = last.errorsBefore
           /\ log = last.logBefore

\* a failed registration after a successful one
C8_Witness ==
  /\ last.op = "register"
  /\ last.threw
  /\ errors = 1
  /\ Len(log) = 1

\* the call just performed resolved its reference as an element name
ElementLookup ==
  /\ last.op = "call"
  /\ last.ref.targeted
  /\ ~(last.slot.ns = "expect" /\ last.slot.name = "section")

\* the element the reference names, as the page or section was defined
Base == Lookup(InitObjs[last.target].elements, last.ref.name)

\* the call just performed gave a parameterized reference to an element
ParameterizedLookup ==
  /\ ElementLookup
  /\ last.ref.dynamic
  /\ last.ref.name \in Keys(InitObjs[last.target].elements)

\* C9: a parameterized reference to an element whose selector is not a
\* function raises ConfigurationError and leaves the element (and every
\* other object) as it was.
C9_NonFunctionRejected ==
  (ParameterizedLookup /\ InitObjs[Base].selector.kind # "fn") =>
    /\ last.out.threw = "config"
    /\ ~last.mutated
    /\ objs = InitObjs
    /\ last.appended = <<>>

\* a parameterized reference to an element with a string selector was made
C9_Witness ==
  /\ ParameterizedLookup
  /\ InitObjs[Base].selector.kind = "str"
  /\ last.out.threw = "config"

\* C10: a parameterized reference '@name<a,b,...>' to an element whose
\* selector is a function resolves to a new descriptor whose selector is the
\* function applied to the arguments, whose parent is the element's parent
\* and whose other fields are the element's; the element is not modified.
C10_ParameterizedResolved ==
  (ParameterizedLookup /\ last.ref.params # <<>>
     /\ InitObjs[Base].selector.kind = "fn") =>
    /\ last.out.threw = ""
    /\ last.out.el.selector = ApplySel(InitObjs[Base].selector, last.ref.params)
    /\ last.out.el.parent = InitObjs[Base].parent
    /\ last.out.el.name = InitObjs[Base].name
    /\ last.out.el.locateStrategy = InitObjs[Base].locateStrategy
    /\ last.out.el.base = Base
    /\ last.out.el.clone
    /\ ~last.mutated
    /\ objs = InitObjs

\* a reference with two arguments was resolved against a function selector
C10_Witness ==
  /\ ParameterizedLookup
  /\ Len(last.ref.params) = 2
  /\ Len(last.ref.params[2]) = 2
  /\ last.out.threw = ""
  /\ last.out.el.clone

\* the call just performed resolved its reference as a section name
SectionLookup ==
  /\ last.op = "call"
  /\ last.ref.targeted
  /\ last.slot.ns = "expect" /\ last.slot.name = "section"

\* the namespace of the called container that the reference is looked up in
Searched ==
  IF SectionLookup THEN InitObjs[last.target].section
                   ELSE InitObjs[last.target].elements

\* the call just performed gave a reference whose name the searched
\* namespace does not hold
AbsentName ==
  /\ ElementLookup \/ SectionLookup
  /\ last.ref.name \notin Keys(Searched)

\* C11: resolving a reference whose name is absent from the namespace that
\* is searched (elements for an element lookup, the sections for a section
\* lookup) fails with NotFoundError, and the names the error lists are
\* exactly the names of that searched namespace.
C11_NotFoundListsSearched ==
  AbsentName =>
    /\ last.out.threw = "notfound"
    /\ last.out.names = Keys(Searched)

\* resolutions i and j were given the same token on the same container
SameResolution(i, j) ==
  /\ resolved[i].parent = resolved[j].parent
  /\ resolved[i].asSection = resolved[j].asSection
  /\ resolved[i].token = resolved[j].token

CmdPos == CHOOSE i \in 1..Len(last.appended) : last.appended[i].t = "cmd"

\* what the call queued after the underlying command returned
AfterCommand == SubSeq(last.appended, CmdPos + 1, Len(last.appended))

\* the restore of the strategy read when the wrapper was called
RestoreEntry == UseEntry(methodNameOf(last.out.prevLocateStrategy))

\* the call just performed put a callbackWrapper among the arguments
WrapperInstalled == Targeted /\ last.out.callbackIndex # -1

C14_SwitchAdjacentToCommand ==
  /\ \A i \in 1..Len(tags) :
       tags[i].role = "switch" =>
         /\ i < Len(tags)
         /\ tags[i + 1].role = "cmd"
         /\ tags[i + 1].inv = tags[i].inv
         /\ queue[i] = UseEntry(methodNameOf(tags[i].desired))
  /\ (last.op = "use" /\ last.tag.role = "switch") =>
       /\ tags # <<>>
       /\ Head(tags).role = "cmd"
       /\ Head(tags).inv = last.tag.inv
       /\ locateStrategy = last.tag.desired
  /\ (last.op = "cmd" /\ last.tag.targeted /\ last.tag.desired \in methodMap) =>
       last.before = last.tag.desired

\* the command of a second targeted invocation, called while the strategy
\* was the recursion the first invocation had switched to and not yet
\* restored, was run under the strategy the second invocation selected
C14_Witness ==
  /\ last.op = "cmd"
  /\ last.tag.targeted
  /\ last.tag.inv = 2
  /\ last.tag.before = RECURSION
  /\ last.tag.desired \in {CSS, XPATH}
  /\ last.before = last.tag.desired

\* the first argument of the call just performed is a string that begins
\* with '@'
SigilString ==
  /\ Len(last.arguments) > 0
  /\ last.arguments[1].t = "str"
  /\ Len(last.arguments[1].str) > 0
  /\ last.arguments[1].str[1] = "@"

\* C15: a call is treated as targeted exactly when its first argument is a
\* string beginning with '@'; every other call (no arguments, or a first
\* argument of any other type or value) reaches the underlying command
\* with the caller's arguments as they are.
C15_TargetedIffSigilString ==
  last.op = "call" =>
    /\ last.out.elementCommand <=> SigilString
    /\ ~SigilString =>
         /\ last.out.threw = ""
         /\ last.out.passed = last.arguments
         /\ last.appended = <<CmdEntry(last.slot.w.fn, last.arguments)>>

\* the final argument list of the targeted call just performed, before any
\* callback is wrapped: the resolved first argument, then the caller's
\* arguments after the reference
FinalArgs ==
  <<IF Len(last.out.ancestors) = 1 THEN SelVal(last.out.el.selector)
                                   ELSE ChainVal(last.out.ancestors)>>
    \o Tail(last.arguments)

\* passed is list with the argument at position k (from 1) replaced by a
\* callbackWrapper around it and every other argument unchanged
WrappedAt(passed, list, k) ==
  /\ Len(passed) = Len(list)
  /\ passed[k] = WrapCallback(last.out.prevLocateStrategy, list[k])
  /\ \A i \in 1..Len(list) : i # k => passed[i] = list[i]

\* C16: over the final argument list of a targeted invocation, the last
\* argument is wrapped if it is a function; otherwise the second-to-last
\* is wrapped if it is a function; otherwise nothing is wrapped, wherever
\* else a function may sit. At most one argument is replaced and all the
\* others are passed unchanged.
C16_TwoPositionScan ==
  Targeted =>
    LET n == Len(FinalArgs)
    IN IF IsFunction(FinalArgs[n])
         THEN WrappedAt(last.out.passed, FinalArgs, n)
       ELSE IF n >= 2 /\ IsFunction(FinalArgs[n - 1])
         THEN WrappedAt(last.out.passed, FinalArgs, n - 1)
       ELSE last.out.passed = FinalArgs

\* a call whose final list has four arguments with the only function at
\* the third-to-last position passed it unwrapped
C16_Witness ==
  /\ Targeted
  /\ Len(FinalArgs) = 4
  /\ IsFunction(FinalArgs[2])
  /\ ~IsFunction(FinalArgs[3]) /\ ~IsFunction(FinalArgs[4])
  /\ last.out.passed = FinalArgs

\* a call with the callback second-to-last, before a message, had it wrapped
C16_WitnessSecondToLast ==
  /\ Targeted
  /\ Len(FinalArgs) = 3
  /\ IsFunction(FinalArgs[2]) /\ ~IsFunction(FinalArgs[3])
  /\ last.out.passed[2].t = "wrapper"

\* the call just performed resolved its target and went on to select a
\* strategy and call setLocateStrategy with it
StrategySelected ==
  /\ last.op = "call"
  /\ last.out.elementCommand
  /\ last.out.el.base # "null"

\* what the call queued before the underlying command, or all it queued
\* when it did not get to the underlying command
BeforeCommand ==
  IF \E i \in 1..Len(last.appended) : last.appended[i].t = "cmd"
    THEN SubSeq(last.appended, 1, CmdPos - 1)
    ELSE last.appended

\* C17: setLocateStrategy(client, strategy) invokes exactly one primitive,
\* useCss for 'css selector', useXpath for 'xpath', useRecursion for
\* 'recursion', and does nothing for every other value, an absent strategy
\* included: no primitive is invoked and the call goes on.
C17_SetStrategy ==
  StrategySelected =>
    LET d == last.out.desiredStrategy
    IN /\ d = CSS => BeforeCommand = <<UseEntry("useCss")>>
       /\ d = XPATH => BeforeCommand = <<UseEntry("useXpath")>>
       /\ d = RECURSION => BeforeCommand = <<UseEntry("useRecursion")>>
       /\ d \notin {CSS, XPATH, RECURSION} =>
            /\ BeforeCommand = <<>>
            /\ last.out.threw = ""
            /\ locateStrategy = last.before

\* C18: the ancestor chain built for a resolved target has length >= 1 and
\* ends in the target; each entry is the parent of the entry after it;
\* every entry before the target has a selector; and the first entry has
\* no parent or a parent without a selector: the walk stops at the first
\* parent that has none.
C18_AncestorChain ==
  StrategySelected =>
    LET chain == last.out.ancestors
        n == Len(chain)
    IN /\ n >= 1
       /\ chain[n] = last.out.el
       /\ \A i \in 1..(n - 1) :
            /\ chain[i + 1].parent # "null"
            /\ chain[i] = Desc(InitObjs, chain[i + 1].parent)
            /\ Truthy(chain[i].selector)
       /\ \/ chain[1].parent = "null"
          \/ ~Truthy(InitObjs[chain[1].parent].selector)

\* the chain of a target whose parent is a section without a selector,
\* itself inside a page, is the target alone
C18_Witness ==
  /\ StrategySelected
  /\ Len(last.out.ancestors) = 1
  /\ last.out.el.parent # "null"
  /\ InitObjs[last.out.el.parent].parent # "null"

\* the call just performed raised the error of a failed resolution
ResolutionFailed ==
  /\ last.op = "call"
  /\ last.out.threw \in {"notfound", "config"}

\* C19: when the resolution of the target fails (not found, or a
\* parameterized reference to an element without a function selector), the
\* error reaches the caller and the invocation does nothing else: no
\* strategy switch and no underlying command is queued, the strategy is
\* unchanged, and no page, section or element is modified.
C19_FailureHasNoEffect ==
  ResolutionFailed =>
    /\ last.appended = <<>>
    /\ last.out.ret = NoRet
    /\ last.out.passed = <<>>
    /\ locateStrategy = last.before
    /\ Len(tags) = Len(queue)
    /\ \A i \in 1..Len(tags) : tags[i].inv # last.inv
    /\ ~last.mutated
    /\ objs = InitObjs

\* a second invocation failed to find its target while entries of the
\* first were queued and the strategy was the one the first had switched to
C19_Witness ==
  /\ ResolutionFailed
  /\ last.out.threw = "notfound"
  /\ last.inv = 2
  /\ queue # <<>>
  /\ locateStrategy = RECURSION

\* C20: in every targeted invocation the argument the callback wrapper
\* replaces is one the caller gave after the '@' reference; the resolved
\* selector or ancestor chain at position 0 is never the one wrapped,
\* whether the target's selector is a string or a function and however
\* many arguments the caller gave.
C20_FirstArgumentNeverWrapped ==
  Targeted =>
    /\ last.out.callbackIndex # 0
    /\ last.out.passed[1] = FinalArgs[1]
    /\ last.out.callbackIndex # -1 =>
         /\ last.out.callbackIndex + 1 \in 2..Len(last.arguments)
         /\ last.out.passed[last.out.callbackIndex + 1].ot =
              last.arguments[last.out.callbackIndex + 1].t

====
